---- MODULE Spec2Model ----
(***************************************************************************)
(* A model of the losers_queue rating engine (src/losersq.py, src/utils.py) *)
(*                                                                         *)
(* Python dicts are modelled with their insertion order (DictNew ..        *)
(* GetItem below), a collections.defaultdict additionally carries its      *)
(* default_factory, and reading a missing key of a defaultdict inserts the *)
(* default: every operator that reads a mapping returns the mapping as the *)
(* read leaves it.                                                         *)
(*                                                                         *)
(* Player names are the naturals 1..NumPlayers, game ids the naturals      *)
(* 1..NumRecords.  Floating point ratings are modelled by integers.        *)
(***************************************************************************)
EXTENDS Integers, Sequences, FiniteSets, TLC

\* ------------------------------------------------------------------ bounds
NumRecords == 5   \* raw match records that exist on disk
MaxFiles   == 3   \* length of the match_files list given to LosersQueue
NumPlayers == 11  \* summoner names
NumNamed   == 4   \* names a directly called function is given
MaxTeam    == 2   \* players of one team in a direct call of get_new_ratings

\* ------------------------------------------------------- program constants
RosterSize == 5       \* losersq.py:333  len(...) == 5
TS_MU      == 1500    \* losersq.py:225  TrueSkill(mu=1500, ...)
TS_SIGMA   == 500     \* losersq.py:225  TrueSkill(..., sigma=500, ...)
start_elo  == 1500    \* losersq.py:183  EloSystem(start_elo=1500, ...)
elo_k      == 32      \* losersq.py:183  EloSystem(..., k=32)
DefaultN   == 3       \* losersq.py:394  print_matches(..., n=3)

Names == 1..NumPlayers
None  == "None"

\* utils.py CHAMP_ID_TO_NAME, keyed by champion id
CHAMP_ID_TO_NAME == <<"Ahri", "Zed", "Lux">>

\* ------------------------------------------------------------ sequences
\* F applied to the value of e: e is evaluated once, however often F uses it
Bind(e, F(_)) == CHOOSE r \in {F(x) : x \in {e}} : TRUE

\* a sequence given as a function, as a list of its elements
List(f) == f \o <<>>

RECURSIVE SeqSum(_)
SeqSum(s) ==
    Bind(s, LAMBDA sv : IF sv = <<>> THEN 0 ELSE Head(sv) + SeqSum(Tail(sv)))

Range(s) == UNION {{sv[i] : i \in 1..Len(sv)} : sv \in {s}}

Reverse(s) == Bind(s, LAMBDA sv : List([i \in 1..Len(sv) |-> sv[Len(sv) + 1 - i]]))

\* Python's s[:n], n possibly negative
SliceTo(s, n) ==
    Bind(s, LAMBDA sv :
        SubSeq(sv, 1, IF n < 0 THEN (IF Len(sv) + n < 0 THEN 0 ELSE Len(sv) + n)
                      ELSE (IF n > Len(sv) THEN Len(sv) ELSE n)))

\* the list of the elements of s with the i-th at position pos[i]
Placed(s, pos) ==
    List([p \in 1..Len(s) |-> s[CHOOSE i \in 1..Len(s) : pos[i] = p]])

\* sorted(s, key=..., reverse=True) and list.sort(key=..., reverse=True), with
\* Lt(a, b) the "<" of the keys of a and b: descending, and stable (elements
\* of which neither is less than the other keep their original order).
SortedDesc(s, Lt(_, _)) ==
    Bind(s, LAMBDA sv :
        Bind(List([i \in 1..Len(sv) |->
                   1 + Cardinality({j \in 1..Len(sv) :
                        \/ Lt(sv[i], sv[j])
                        \/ ~Lt(sv[i], sv[j]) /\ ~Lt(sv[j], sv[i]) /\ j < i})]),
             LAMBDA pos : Placed(sv, pos)))

\* list.sort(key=...): ascending and stable
SortedAsc(s, Lt(_, _)) ==
    Bind(s, LAMBDA sv :
        Bind(List([i \in 1..Len(sv) |->
                   1 + Cardinality({j \in 1..Len(sv) :
                        \/ Lt(sv[j], sv[i])
                        \/ ~Lt(sv[i], sv[j]) /\ ~Lt(sv[j], sv[i]) /\ j < i})]),
             LAMBDA pos : Placed(sv, pos)))

\* ------------------------------------------------------------ dicts
\* A dict is [keys: its keys in insertion order, map: the value under each
\*            key, factory: the default_factory ("none" for a plain dict)].
DictNew(factory) == [keys |-> <<>>, map |-> <<>>, factory |-> factory]

Keys(d) == d.keys

KeySet(d) == DOMAIN d.map

Has(d, k) == k \in DOMAIN d.map

\* the value under a key that is present
Value(d, k) == d.map[k]

\* d.items(), in insertion order
Items(d) ==
    Bind(d, LAMBDA dv :
        List([i \in 1..Len(dv.keys) |-> <<dv.keys[i], dv.map[dv.keys[i]]>>]))

\* d.values(), in insertion order
Values(d) ==
    Bind(d, LAMBDA dv : List([i \in 1..Len(dv.keys) |-> dv.map[dv.keys[i]]]))

\* d[k] = v : an existing key keeps its position
SetItem(d, k, v) ==
    Bind(d, LAMBDA dv :
        IF Has(dv, k)
        THEN [dv EXCEPT !.map[k] = v]
        ELSE [dv EXCEPT !.keys = Append(@, k), !.map = @ @@ (k :> v)])

\* the elements of a set of naturals, ascending
Ascending(S) ==
    Bind(S, LAMBDA Sv :
        List([p \in 1..Cardinality(Sv) |->
                CHOOSE i \in Sv : Cardinality({j \in Sv : j < i}) = p - 1]))

\* for k, v in pairs: d[k] = v, with d and pairs given by value
SetAllOf(d, pairs) ==
    LET idx(k) == {i \in 1..Len(pairs) : pairs[i][1] = k}
        last(k) == CHOOSE i \in idx(k) : \A j \in idx(k) : j <= i
        new == Ascending({i \in 1..Len(pairs) :
                            /\ ~Has(d, pairs[i][1])
                            /\ \A j \in 1..(i - 1) : pairs[j][1] # pairs[i][1]})
    IN  [d EXCEPT
            !.keys = @ \o [p \in 1..Len(new) |-> pairs[new[p]][1]],
            !.map  = [k \in DOMAIN @ \cup {pairs[i][1] : i \in 1..Len(pairs)} |->
                        IF idx(k) = {} THEN @[k] ELSE pairs[last(k)][2]]]

\* for k, v in pairs: d[k] = v
SetAll(d, pairs) ==
    Bind(d, LAMBDA dv : Bind(List(pairs), LAMBDA pv : SetAllOf(dv, pv)))

\* collections.defaultdict(default_factory): the factory's value
\* (TrueSkill.get_default -> trueskill.Rating(mu, sigma) of the configured
\*  environment; EloSystem.get_default -> Elo(start_elo), in thousandths)
DefaultOf(factory) ==
    IF factory = "TrueSkill" THEN [mu |-> TS_MU, sigma |-> TS_SIGMA]
    ELSE start_elo * 1000

\* d[k] of a missing key of a plain dict raises KeyError
RaisesKeyError(d, k) == ~Has(d, k) /\ d.factory = "none"

\* the dict after the read d[k]: a defaultdict inserts the default
\* (defaultdict.__missing__), anything else is left as it is
Touch(d, k) ==
    IF Has(d, k) \/ d.factory = "none" THEN d
    ELSE SetItem(d, k, DefaultOf(d.factory))

\* the value the read d[k] returns (when it does not raise)
GetItem(d, k) == Value(Touch(d, k), k)

\* the dict after the reads d[k] for k in ks, in order
TouchAll(d, ks) ==
    Bind(d, LAMBDA dv :
        IF dv.factory = "none" THEN dv
        ELSE Bind(SelectSeq(ks, LAMBDA k : ~Has(dv, k)), LAMBDA missing :
                SetAllOf(dv, [i \in 1..Len(missing) |->
                                <<missing[i], DefaultOf(dv.factory)>>])))

RaisesKeyErrorAny(d, ks) ==
    \E dv \in {d}, kv \in {ks} : \E i \in 1..Len(kv) : RaisesKeyError(dv, kv[i])

\* ------------------------------------------------- raw match records
\* The files on disk.  Record k is game k; its shape decides what is wrong
\* with it.  Team 100 lists its members first, as the game client does.
Shape(k) ==
    CASE k % 5 = 3 -> "short"     \* team 200 has 4 members
      [] k % 5 = 0 -> "bothwin"   \* both teams are marked as winners
      [] k % 6 = 0 -> "nowin"     \* no team is marked as winner
      [] OTHER     -> "ok"

\* gameCreation (epoch milliseconds); not monotonic in the game id
GameCreation(k) == (IF k % 2 = 1 THEN 1000 + k ELSE 2000 - k) * 1000

Roster100(k) == [j \in 1..RosterSize |-> ((3 * k + j) % NumPlayers) + 1]
Roster200(k) ==
    [j \in 1..(IF Shape(k) = "short" THEN RosterSize - 1 ELSE RosterSize)
        |-> ((3 * k + RosterSize + j) % NumPlayers) + 1]

TeamWinField(k, teamId) ==
    CASE Shape(k) = "bothwin" -> "Win"
      [] Shape(k) = "nowin"   -> "Fail"
      [] OTHER -> IF (teamId = 100) = (k % 2 = 0) THEN "Win" ELSE "Fail"

RawParticipant(k, pid, name, teamId) ==
    [participantId |-> pid,
     teamId        |-> teamId,
     championId    |-> ((name + k) % Len(CHAMP_ID_TO_NAME)) + 1,
     stats         |-> [win     |-> TeamWinField(k, teamId) = "Win",
                        kills   |-> (name + k) % 4,
                        deaths  |-> (name * k) % 3,
                        assists |-> (name + 2 * k) % 5]]

RawMatch(k) ==
    LET names == Roster100(k) \o Roster200(k)
    IN  [gameId       |-> k,
         gameCreation |-> GameCreation(k),
         participantIdentities |->
             [pid \in 1..Len(names) |-> [participantId |-> pid, summonerName |-> names[pid]]],
         participants |->
             [pid \in 1..Len(names) |->
                 RawParticipant(k, pid, names[pid],
                                IF pid <= RosterSize THEN 100 ELSE 200)],
         teams |-> <<[teamId |-> 100, win |-> TeamWinField(k, 100)],
                     [teamId |-> 200, win |-> TeamWinField(k, 200)]>>]

\* ------------------------------------------------- Participant, Team, Match
Participant(participant_dict) ==
    [team_id |-> participant_dict.teamId,
     champ   |-> CHAMP_ID_TO_NAME[participant_dict.championId],
     win     |-> participant_dict.stats.win,
     kills   |-> participant_dict.stats.kills,
     deaths  |-> participant_dict.stats.deaths,
     assists |-> participant_dict.stats.assists]

\* participants: dict name -> Participant
Team(team_dict, participants) ==
    [team_id      |-> team_dict.teamId,
     team_members |-> SelectSeq(Keys(participants),
                          LAMBDA name : Value(participants, name).team_id = team_dict.teamId),
     win          |-> team_dict.win = "Win"]

\* for participant_dict in match_dict['participants']:
\*     self.participants[pids[pid]] = Participant(participant_dict)
BuildParticipants(plist, pids) ==
    SetAll(DictNew("none"),
           [i \in 1..Len(plist) |->
               <<Value(pids, plist[i].participantId), Participant(plist[i])>>])

\* for participant_info in match_dict['participantIdentities']: pids[pid] = name
BuildPids(idents) ==
    SetAll(DictNew("none"),
           [i \in 1..Len(idents) |-> <<idents[i].participantId, idents[i].summonerName>>])

WinLt(t1, t2) == ~t1.win /\ t2.win

Match(match_dict) ==
    LET pids         == BuildPids(match_dict.participantIdentities)
        participants == BuildParticipants(match_dict.participants, pids)
        teams        == SortedAsc(List([i \in 1..2 |-> Team(match_dict.teams[i], participants)]), WinLt)
    IN  [id            |-> match_dict.gameId,
         creation_time |-> match_dict.gameCreation \div 1000,
         participants  |-> participants,
         losing_team   |-> teams[1],
         winning_team  |-> teams[2]]

\* Match(match_file=match_file) for every file on disk: a file is named by
\* the number of the record it holds
MatchOfFile == List([k \in 1..NumRecords |-> Match(RawMatch(k))])

Obj(match_file) == MatchOfFile[match_file]

\* a variant of IsValidMatch that tests the team sizes alone
IsValidMatch_sizes(match) ==
    /\ Len(match.losing_team.team_members) = RosterSize
    /\ Len(match.winning_team.team_members) = RosterSize

\* LosersQueue.__init__'s test of a parsed match
BoolInt(b) == IF b THEN 1 ELSE 0

IsValidMatch(match) ==
    LET t1 == match.losing_team
        t2 == match.winning_team
    IN  /\ Len(t1.team_members) = RosterSize
        /\ Len(t2.team_members) = RosterSize
        /\ BoolInt(t1.win) + BoolInt(t2.win) = 1

\* ------------------------------------------------- rating systems
\* winners and losers are sequences of RatingSystem.Player
Player(name, champ) == [name |-> name, champ |-> champ]

PlayerNames(players) == List([i \in 1..Len(players) |-> players[i].name])

\* trueskill.Rating: ratings compare by their mean alone (the library's
\* Gaussian.__lt__), which is what sorted() uses when no key is given
RatingLt(a, b) == a.mu < b.mu

\* TrueSkill.rating_key(rating) = (rating.mu, -rating.sigma), compared as tuples
rating_key(rating) == <<rating.mu, 0 - rating.sigma>>

TupleLt(x, y) == x[1] < y[1] \/ (x[1] = y[1] /\ x[2] < y[2])

\* TrueSkill.team_rating
TS_team_rating(ratings) ==
    [mu    |-> SeqSum([i \in 1..Len(ratings) |-> ratings[i].mu]) \div Len(ratings),
     sigma |-> SeqSum([i \in 1..Len(ratings) |-> ratings[i].sigma]) \div Len(ratings)]

\* trueskill.rate([R_winners, R_losers], ranks=[0, 1]): the library's update of
\* two teams, each a dict name -> Rating, in integers.  It keeps what the
\* engine relies on: a rating for exactly the players it is given, computed
\* from the ratings of both teams (an upset moves the means further), every
\* winner's mean raised and every loser's lowered in proportion to the
\* player's own uncertainty, and every uncertainty reduced.
RateStep(R_winners, R_losers) ==
    LET muW == SeqSum([i \in 1..Len(R_winners.keys) |-> Value(R_winners, R_winners.keys[i]).mu])
        muL == SeqSum([i \in 1..Len(R_losers.keys) |-> Value(R_losers, R_losers.keys[i]).mu])
    IN  IF muW < muL THEN 3 ELSE IF muW = muL THEN 2 ELSE 1

RateOne(r, sign, step) ==
    [mu    |-> r.mu + sign * step * (r.sigma \div 50),
     sigma |-> r.sigma - (r.sigma \div 10)]

rate(R_winners, R_losers) ==
    LET step == RateStep(R_winners, R_losers)
    IN  <<[R_winners EXCEPT !.map = [k \in DOMAIN @ |-> RateOne(@[k], 1, step)]],
          [R_losers EXCEPT !.map = [k \in DOMAIN @ |-> RateOne(@[k], -1, step)]]>>

\* {p.name: ratings[p.name] for p in players}, ratings already read
TeamDict(names, ratings) ==
    SetAll(DictNew("none"),
           [i \in 1..Len(names) |-> <<names[i], Value(ratings, names[i])>>])

\* A call's outcome: what it raised ("none" when it returned), the ratings
\* argument as the call leaves it, and the mapping returned.
Outcome(raised, ratings, new_ratings) ==
    [raised |-> raised, ratings |-> ratings, new_ratings |-> new_ratings]

\* a variant of TrueSkill.get_new_ratings without the deepcopy: the new
\* ratings are stored in the ratings argument itself, which is returned
TS_get_new_ratings_in_place(winners, losers, ratings) ==
    LET names   == PlayerNames(winners) \o PlayerNames(losers)
        read    == TouchAll(ratings, names)
        updated_ratings == rate(TeamDict(PlayerNames(winners), read),
                                TeamDict(PlayerNames(losers), read))
        new_ratings == SetAll(SetAll(read, Items(updated_ratings[1])),
                              Items(updated_ratings[2]))
    IN  IF RaisesKeyErrorAny(ratings, names)
        THEN Outcome("KeyError", ratings, None)
        ELSE IF winners = <<>> \/ losers = <<>>
        THEN Outcome("ValueError", read, None)
        ELSE Outcome("none", new_ratings, new_ratings)

\* TrueSkill.get_new_ratings
TS_get_new_ratings(winners, losers, ratings) ==
    LET names   == PlayerNames(winners) \o PlayerNames(losers)
        read    == TouchAll(ratings, names)
        R_winners == TeamDict(PlayerNames(winners), read)
        R_losers  == TeamDict(PlayerNames(losers), read)
        updated_ratings == rate(R_winners, R_losers)
        \* for team in updated_ratings: for name, rating in team.items():
        \*     new_ratings[name] = TrueSkill.Rating(rating.mu, rating.sigma)
        new_ratings == SetAll(SetAll(read, Items(updated_ratings[1])),
                              Items(updated_ratings[2]))
    IN  IF RaisesKeyErrorAny(ratings, names)
        THEN Outcome("KeyError", ratings, None)
        ELSE IF winners = <<>> \/ losers = <<>>
        THEN Outcome("ValueError", read, None)
        ELSE Outcome("none", read, new_ratings)

\* 10 ** (R_delta / 400), in thousandths; R_delta in thousandths of a point,
\* taken in steps of a quarter decade (100 points) and capped at 3 decades
Pow10Quarter == <<1000, 1778, 3162, 5623>>

RECURSIVE Pow10(_)
Pow10(n) == IF n = 0 THEN 1 ELSE 10 * Pow10(n - 1)

TenToThe(R_delta) ==
    LET q0 == R_delta \div 100000
        q  == IF q0 > 12 THEN 12 ELSE IF q0 < -12 THEN -12 ELSE q0
        e  == q \div 4
        m  == Pow10Quarter[(q % 4) + 1]
    IN  IF e >= 0 THEN m * Pow10(e) ELSE m \div Pow10(0 - e)

\* self._k * winner_delta, in thousandths of a point
EloDelta(R_winner, R_loser) ==
    LET R_delta      == R_loser - R_winner
        winner_delta == 1000 - (1000 * 1000) \div (1000 + TenToThe(R_delta))
    IN  elo_k * winner_delta

\* for player in players: new_ratings[player.name] = Elo(new_ratings[player.name] + delta)
RECURSIVE AddToAll(_, _, _)
AddToAll(d, names, delta) ==
    IF names = <<>> THEN d
    ELSE AddToAll(SetItem(Touch(d, Head(names)), Head(names),
                          GetItem(d, Head(names)) + delta),
                  Tail(names), delta)

\* a variant of EloSystem.get_new_ratings whose second loop adds
\* k * winner_delta to the losers' ratings as the first does to the winners'
Elo_get_new_ratings_losers_gain(winners, losers, ratings) ==
    LET wn   == PlayerNames(winners)
        ln   == PlayerNames(losers)
        read == TouchAll(ratings, wn \o ln)
        R_winner == SeqSum([i \in 1..Len(wn) |-> Value(read, wn[i])]) \div Len(wn)
        R_loser  == SeqSum([i \in 1..Len(ln) |-> Value(read, ln[i])]) \div Len(ln)
        delta    == EloDelta(R_winner, R_loser)
    IN  IF RaisesKeyErrorAny(ratings, wn)
        THEN Outcome("KeyError", ratings, None)
        ELSE IF winners = <<>>
        THEN Outcome("ZeroDivisionError", ratings, None)
        ELSE IF RaisesKeyErrorAny(ratings, ln)
        THEN Outcome("KeyError", ratings, None)
        ELSE IF losers = <<>>
        THEN Outcome("ZeroDivisionError", TouchAll(ratings, wn), None)
        ELSE Outcome("none", read,
                     AddToAll(AddToAll(ratings, wn, delta), ln, delta))

\* EloSystem.get_new_ratings
Elo_get_new_ratings(winners, losers, ratings) ==
    LET wn   == PlayerNames(winners)
        ln   == PlayerNames(losers)
        copy == ratings                       \* copy.deepcopy(ratings)
        read == TouchAll(ratings, wn \o ln)
        R_winner == SeqSum([i \in 1..Len(wn) |-> Value(read, wn[i])]) \div Len(wn)
        R_loser  == SeqSum([i \in 1..Len(ln) |-> Value(read, ln[i])]) \div Len(ln)
        delta    == EloDelta(R_winner, R_loser)
    IN  IF RaisesKeyErrorAny(ratings, wn)
        THEN Outcome("KeyError", ratings, None)
        ELSE IF winners = <<>>
        THEN Outcome("ZeroDivisionError", ratings, None)
        ELSE IF RaisesKeyErrorAny(ratings, ln)
        THEN Outcome("KeyError", ratings, None)
        ELSE IF losers = <<>>
        THEN Outcome("ZeroDivisionError", TouchAll(ratings, wn), None)
        ELSE Outcome("none", read,
                     AddToAll(AddToAll(copy, wn, delta), ln, 0 - delta))

\* ------------------------------------------------- utils.py
\* kda_str: "Perfect", or the ratio with two decimals (in hundredths)
kda_str(kills, deaths, assists) ==
    IF deaths = 0
    THEN (IF kills + assists = 0 THEN [perfect |-> FALSE, ratio |-> 0]
          ELSE [perfect |-> TRUE, ratio |-> 0])
    ELSE [perfect |-> FALSE, ratio |-> ((kills + assists) * 100) \div deaths]

\* the "<" of key(x[1]) for two items of the dict; key None is the identity
ItemLt(key, x, y) ==
    IF key = None THEN RatingLt(x[2], y[2])
    ELSE TupleLt(rating_key(x[2]), rating_key(y[2]))

\* a variant of leaderboard_reads that stores the default for every name
\* given, missing or not
leaderboard_reads_overwrite(elos_dict, names) ==
    [raised    |-> "none",
     elos_dict |-> SetAll(elos_dict, [i \in 1..Len(names) |->
                                        <<names[i], DefaultOf(elos_dict.factory)>>])]

\* get_leaderboard, the reads "for name in names: elos_dict[name]": what they
\* raised and elos_dict as they leave it
leaderboard_reads(elos_dict, names) ==
    IF RaisesKeyErrorAny(elos_dict, names)
    THEN [raised |-> "KeyError", elos_dict |-> elos_dict]
    ELSE [raised |-> "none", elos_dict |-> TouchAll(elos_dict, names)]

\* get_leaderboard, the list returned:
\* sorted(elos_dict.items(), key=lambda x: key(x[1]), reverse=True)
leaderboard_sorted(elos_dict, key) ==
    SortedDesc(Items(elos_dict), LAMBDA x, y : ItemLt(key, x, y))

\* get_leaderboard(elos_dict, names, key): what it raised, elos_dict as the
\* call leaves it, and the sorted list of items it returns
get_leaderboard(elos_dict, names, key) ==
    LET r == leaderboard_reads(elos_dict, names)
    IN  [raised |-> r.raised, elos_dict |-> r.elos_dict,
         elos   |-> IF r.raised = "none" THEN leaderboard_sorted(r.elos_dict, key)
                    ELSE <<>>]

\* get_leaderboard(elos_dict, names=None, key): names = elos_dict.keys()
get_leaderboard_all(elos_dict, key) ==
    get_leaderboard(elos_dict, Keys(elos_dict), key)

\* {name : i for i, (name, _) in enumerate(leaderboard, 1)}
RankOf(leaderboard, name) ==
    CHOOSE i \in 1..Len(leaderboard) : leaderboard[i][1] = name

\* ------------------------------------------------- PlayerStats
PlayerStats(name, matches) ==
    [name |-> name,
     _matches |-> SelectSeq(matches, LAMBDA match : Has(match.participants, name))]

_matches_with_champ(self, champ) ==
    IF champ = None \/ champ = "all" THEN self._matches
    ELSE SelectSeq(self._matches,
                   LAMBDA match : Value(match.participants, self.name).champ = champ)

get_win_loss(self, champ) ==
    LET won(match) == Value(match.participants, self.name).win
    IN  Bind(_matches_with_champ(self, champ), LAMBDA ms :
            <<Len(SelectSeq(ms, won)), Len(SelectSeq(ms, LAMBDA match : ~won(match)))>>)

\* PlayerStats.get_avg_kda: what it raised and the value it returned
\* (averages in thousandths)
get_avg_kda(self, champ) ==
    IF self._matches = <<>>
    THEN [raised |-> "none", value |-> <<<<0, 0, 0>>, 0>>]
    ELSE Bind(_matches_with_champ(self, champ), LAMBDA ms :
        LET P(i)      == Value(ms[i].participants, self.name)
            kills     == SeqSum([i \in 1..Len(ms) |-> P(i).kills])
            deaths    == SeqSum([i \in 1..Len(ms) |-> P(i).deaths])
            assists   == SeqSum([i \in 1..Len(ms) |-> P(i).assists])
            n_matches == Len(ms)
        IN  IF n_matches = 0
            THEN [raised |-> "ZeroDivisionError", value |-> None]
            ELSE [raised |-> "none",
                  value  |-> <<(kills * 1000) \div n_matches,
                               (deaths * 1000) \div n_matches,
                               (assists * 1000) \div n_matches>>])

\* PlayerStats.get_leaderboard_str (the multikill column, which reads
\* nothing but the matches, is left out)
get_leaderboard_str(self, rating, champ) ==
    Bind(get_win_loss(self, champ), LAMBDA wl :
    Bind(get_avg_kda(self, champ), LAMBDA avg :
        IF avg.raised # "none"
        THEN [raised |-> avg.raised, text |-> None]
        ELSE IF Len(avg.value) # 3         \* k, d, a = ...
        THEN [raised |-> "ValueError", text |-> None]
        ELSE [raised |-> "none",
              text   |-> [name |-> self.name, rating |-> rating,
                          win |-> wl[1], loss |-> wl[2], kda |-> avg.value,
                          ratio |-> kda_str(avg.value[1], avg.value[2], avg.value[3])]]))

\* ------------------------------------------------- Match.as_str
\* the first turn of as_str's loop over self.participants that raises, or 0.
\* A turn reads ratings_before[name] and ratings_after[name], then
\* ranks_before[name] and ranks_after[name]; the rank dicts are plain dicts
\* whose keys are those of the two mappings when the leaderboards were taken,
\* so the turn of a name that one of the mappings lacked raises KeyError
\* (from a plain mapping, or else from the rank dict).
FirstRaising(names, before, after) ==
    LET bad == {i \in 1..Len(names) : ~Has(before, names[i]) \/ ~Has(after, names[i])}
    IN  IF bad = {} THEN 0 ELSE CHOOSE i \in bad : \A j \in bad : i <= j

\* the rating part of the line of as_str for every participant
AsStrLines(names, before, after, lb_before, lb_after) ==
    List([i \in 1..Len(names) |->
            [name          |-> names[i],
             rating_before |-> Value(before, names[i]),
             rating_after  |-> Value(after, names[i]),
             rank_before   |-> RankOf(lb_before, names[i]),
             rank_after    |-> RankOf(lb_after, names[i])]])

\* Match.as_str(ratings_before, ratings_after, team_rating_f): what it raised
\* and the two mappings as the call leaves them
as_str(self, ratings_before, ratings_after) ==
    Bind(leaderboard_reads(ratings_before, Keys(ratings_after)), LAMBDA lb1 :
    Bind(leaderboard_reads(ratings_after, Keys(ratings_after)), LAMBDA lb2 :
        LET b     == lb1.elos_dict
            a     == lb2.elos_dict
            names == Keys(self.participants)
        IN  IF lb1.raised # "none"
            THEN [raised |-> lb1.raised, before |-> ratings_before, after |-> ratings_after]
            ELSE Bind(FirstRaising(names, b, a), LAMBDA stop :
                    IF stop # 0
                    THEN [raised |-> "KeyError",
                          before |-> Touch(b, names[stop]),
                          after  |-> IF RaisesKeyError(b, names[stop]) THEN a
                                     ELSE Touch(a, names[stop])]
                    ELSE [raised |-> "none", before |-> b, after |-> a])))

\* Match.as_str, the string returned when nothing is raised, from the mappings
\* as the call leaves them: the match id and the rating part of every
\* participant's line and of the two team lines
as_str_text(self, before, after) ==
    LET team(t, d) == List([i \in 1..Len(t.team_members) |-> Value(d, t.team_members[i])])
    IN  [id      |-> self.id,
         lines   |-> AsStrLines(Keys(self.participants), before, after,
                                leaderboard_sorted(before, None),
                                leaderboard_sorted(after, None)),
         winners |-> <<TS_team_rating(team(self.winning_team, before)),
                       TS_team_rating(team(self.winning_team, after))>>,
         losers  |-> <<TS_team_rating(team(self.losing_team, before)),
                       TS_team_rating(team(self.losing_team, after))>>]

\* ------------------------------------------------- LosersQueue: state
VARIABLES
    match_files,      \* the match_files argument: the records read, in order
    pc,               \* where the program is: "read", "start", "replay",
                      \* "ready" (constructed), "raised" (the constructor raised)
    fi,               \* number of match files read so far
    matches,          \* __init__'s local dict id -> Match
    discarded,        \* ids of the "Discarding match" diagnostics printed
    _matches,         \* self._matches
    rating_history,   \* calculate_rating_history's local list
    fed,              \* the get_new_ratings calls made: match id and ratings argument
    _rating_history,  \* self._rating_history
    _player_stats,    \* self._player_stats: dict name -> PlayerStats
    out,              \* the last query and what it printed or raised
    call              \* a direct call of a library function and its outcome

vars == <<match_files, pc, fi, matches, discarded, _matches, rating_history,
          fed, _rating_history, _player_stats, out, call>>

RECURSIVE SeqsUpTo(_, _)
SeqsUpTo(S, n) ==
    IF n = 0 THEN {<<>>}
    ELSE LET shorter == SeqsUpTo(S, n - 1)
         IN  shorter \cup {Append(s, x) : s \in shorter, x \in S}

NoCall == [fn |-> "none"]
NoOut  == [op |-> "none", raised |-> "none", shown |-> <<>>]

\* the matches directory holds any records, in any order; the same record may
\* be there under two file names
Init ==
    /\ match_files \in SeqsUpTo(1..NumRecords, MaxFiles)
    /\ pc = "read"
    /\ fi = 0
    /\ matches = DictNew("none")
    /\ discarded = <<>>
    /\ _matches = <<>>
    /\ rating_history = <<>>
    /\ fed = <<>>
    /\ _rating_history = <<>>
    /\ _player_stats = DictNew("none")
    /\ out = NoOut
    /\ call = NoCall

\* ------------------------------------------------- LosersQueue.__init__
\* a variant of KeepMatch that keeps every valid record it is given, a list
\* append instead of a dict store: no de-duplication by id
KeepMatch_append(d, match) ==
    [d EXCEPT !.keys = Append(@, Len(@) + 1),
              !.map  = @ @@ ((Len(d.keys) + 1) :> match)]

\* matches[match.id] = match
KeepMatch(d, match) == SetItem(d, match.id, match)

\* one turn of "for match_file in match_files"
ReadMatchFile ==
    /\ pc = "read"
    /\ fi < Len(match_files)
    /\ \E match \in {Obj(match_files[fi + 1])} :   \* Match(match_file=match_file)
          IF IsValidMatch(match)
          THEN /\ matches' = KeepMatch(matches, match)
               /\ UNCHANGED discarded
          ELSE /\ discarded' = Append(discarded, match.id)
               /\ UNCHANGED matches
    /\ fi' = fi + 1
    /\ UNCHANGED <<match_files, pc, _matches, rating_history, fed,
                   _rating_history, _player_stats, out, call>>

CreationLt(m1, m2) == m1.creation_time < m2.creation_time

\* a variant of SortedMatches without the sort: the matches in the order their
\* files were given
SortedMatches_unsorted(d) == Values(d)

\* list(matches.values()) sorted by creation_time, reverse=True
SortedMatches(d) ==
    SortedDesc(Values(d), CreationLt)

SortMatches ==
    /\ pc = "read"
    /\ fi = Len(match_files)
    /\ _matches' = SortedMatches(matches)
    /\ pc' = "start"
    /\ UNCHANGED <<match_files, fi, matches, discarded, rating_history, fed,
                   _rating_history, _player_stats, out, call>>

\* a variant of start_ratings: a plain dict, with no default for a missing name
start_ratings_plain == DictNew("none")

\* start_ratings = defaultdict(self._rating_system.get_default)
start_ratings == DictNew("TrueSkill")

\* the call of calculate_rating_history, up to its loop
StartHistory ==
    /\ pc = "start"
    /\ rating_history' = <<start_ratings>>
    /\ pc' = "replay"
    /\ UNCHANGED <<match_files, fi, matches, discarded, _matches, fed,
                   _rating_history, _player_stats, out, call>>

\* winners, losers of a match: its participants by their own win flag
TeamOf(match, win) ==
    LET ns == SelectSeq(Keys(match.participants),
                        LAMBDA name : Value(match.participants, name).win = win)
    IN  List([i \in 1..Len(ns) |-> Player(ns[i], Value(match.participants, ns[i]).champ)])

\* the match the loop "for match in reversed(matches)" takes after n turns
NextReplayed(ms, n) == ms[Len(ms) - n]

\* one turn of the loop of calculate_rating_history
ReplayMatch ==
    /\ pc = "replay"
    /\ Len(rating_history) - 1 < Len(_matches)
    /\ \E match \in {NextReplayed(_matches, Len(rating_history) - 1)},
          last  \in {rating_history[Len(rating_history)]} :
       \E o \in {TS_get_new_ratings(TeamOf(match, TRUE), TeamOf(match, FALSE), last)} :
       \E read \in {[rating_history EXCEPT ![Len(rating_history)] = o.ratings]} :
          /\ fed' = Append(fed, [id |-> match.id, ratings |-> last])
          /\ IF o.raised = "none"
             THEN /\ rating_history' = Append(read, o.new_ratings)
                  /\ pc' = pc
             ELSE /\ rating_history' = read
                  /\ pc' = "raised"
    /\ UNCHANGED <<match_files, fi, matches, discarded, _matches,
                   _rating_history, _player_stats, out, call>>

\* {name : PlayerStats(name, self._matches) for name in self._rating_history[0]}
BuildPlayerStats(names, ms) ==
    SetAll(DictNew("none"),
           [i \in 1..Len(names) |-> <<names[i], PlayerStats(names[i], ms)>>])

\* a variant of ReturnedHistory without the reverse(): oldest snapshot first
ReturnedHistory_unreversed(rh) == rh

\* rating_history.reverse(); return rating_history
ReturnedHistory(rh) == Reverse(rh)

\* the end of calculate_rating_history and the rest of __init__
FinishHistory ==
    /\ pc = "replay"
    /\ Len(rating_history) - 1 = Len(_matches)
    /\ _rating_history' = ReturnedHistory(rating_history)
    /\ _player_stats' = BuildPlayerStats(Keys(ReturnedHistory(rating_history)[1]),
                                         _matches)
    /\ rating_history' = <<>>
    /\ pc' = "ready"
    /\ UNCHANGED <<match_files, fi, matches, discarded, _matches, fed, out, call>>

\* ------------------------------------------------- LosersQueue: queries
Champs == Range(CHAMP_ID_TO_NAME)

\* the stats lines of leaderboard(): for name, rating in ratings; the loop
\* stops at the first line that raises
StatStrs(ratings, stats) ==
    Bind(List([i \in 1..Len(ratings) |->
                IF RaisesKeyError(stats, ratings[i][1])
                THEN [raised |-> "KeyError", text |-> None]
                ELSE get_leaderboard_str(Value(stats, ratings[i][1]), ratings[i][2], None)]),
         LAMBDA turns :
            Bind({i \in 1..Len(turns) : turns[i].raised # "none"}, LAMBDA bad :
                LET stop == IF bad = {} THEN Len(turns) + 1
                            ELSE CHOOSE i \in bad : \A j \in bad : i <= j
                IN  [raised |-> IF bad = {} THEN "none" ELSE turns[stop].raised,
                     strs   |-> List([i \in 1..(stop - 1) |-> turns[i].text])]))

\* LosersQueue.leaderboard()
Leaderboard ==
    /\ pc = "ready"
    /\ \E lb \in {get_leaderboard_all(_rating_history[1], None)} :
       \E ss \in {StatStrs(lb.elos, _player_stats)} :
          /\ _rating_history' = [_rating_history EXCEPT ![1] = lb.elos_dict]
          /\ out' = [op |-> "leaderboard",
                     raised |-> IF lb.raised # "none" THEN lb.raised
                                ELSE IF ss.raised # "none" THEN ss.raised
                                ELSE IF ss.strs = <<>> THEN "ValueError"  \* max() of nothing
                                ELSE "none",
                     shown |-> [i \in 1..Len(ss.strs) |-> ss.strs[i].name]]
    /\ pc' = "called"
    /\ UNCHANGED <<match_files, fi, matches, discarded, _matches,
                   rating_history, fed, _player_stats, call>>

\* the names the queries are asked about
QueryNames == {1, 4}

\* LosersQueue.print_stats(name, champ)
PrintStats ==
    /\ pc = "ready"
    /\ \E name \in QueryNames, champ \in Champs \cup {None, "all"} :
          \E ratings \in {_rating_history[1]} :
          \E reads \in {Has(_player_stats, name) /\ ~RaisesKeyError(ratings, name)} :
          \E str \in {IF reads
                       THEN get_leaderboard_str(Value(_player_stats, name),
                                                GetItem(ratings, name), champ)
                       ELSE [raised |-> "KeyError", text |-> None]} :
              /\ _rating_history' =
                    IF reads
                    THEN [_rating_history EXCEPT ![1] = Touch(ratings, name)]
                    ELSE _rating_history
              /\ out' = [op |-> "print_stats",
                         raised |-> str.raised,
                         shown |-> IF str.raised = "none"
                                   THEN <<str.text.name>> ELSE <<>>]
    /\ pc' = "called"
    /\ UNCHANGED <<match_files, fi, matches, discarded, _matches,
                   rating_history, fed, _player_stats, call>>

\* the (ratings_before, ratings_after) pair print_matches zips with the j-th
\* match it prints: indices into self._rating_history
\*   zip(self._rating_history[1:], self._rating_history)
ZippedPair(j) == [before |-> j + 1, after |-> j]

\* the loop of print_matches over ms = matches[:n], from its j-th turn on:
\* what it raised, the history as the calls of as_str leave it, and for every
\* match printed its id and the pair of snapshots as_str was given
RECURSIVE PrintLoop(_, _, _, _)
PrintLoop(ms, j, history, texts) ==
    IF j > Len(ms) \/ j > Len(history) - 1
    THEN [raised |-> "none", history |-> history, texts |-> texts]
    ELSE Bind(ZippedPair(j), LAMBDA zp :
         Bind(as_str(ms[j], history[zp.before], history[zp.after]), LAMBDA o :
         Bind([history EXCEPT ![zp.before] = o.before, ![zp.after] = o.after], LAMBDA h :
            IF o.raised # "none"
            THEN [raised |-> o.raised, history |-> h, texts |-> texts]
            ELSE PrintLoop(ms, j + 1, h,
                           Append(texts, [id |-> ms[j].id, before |-> zp.before,
                                          after |-> zp.after])))))

NValues == {1, DefaultN}

\* LosersQueue.print_matches(name=None, champ, n)
PrintMatches ==
    /\ pc = "ready"
    /\ \E n \in NValues :
          \E o \in {PrintLoop(SliceTo(_matches, n), 1, _rating_history, <<>>)} :
              /\ _rating_history' = o.history
              /\ out' = [op |-> "print_matches", raised |-> o.raised,
                         shown |-> o.texts]
    /\ pc' = "called"
    /\ UNCHANGED <<match_files, fi, matches, discarded, _matches,
                   rating_history, fed, _player_stats, call>>

\* LosersQueue.print_matches(name, champ, n) with a name
PrintMatchesOf ==
    /\ pc = "ready"
    /\ \E name \in QueryNames, champ \in Champs \cup {None}, n \in NValues :
          IF ~Has(_player_stats, name)
          THEN /\ out' = [op |-> "print_matches_of", raised |-> "KeyError",
                          shown |-> <<>>]
               /\ UNCHANGED _rating_history
          ELSE \E ms \in {_matches_with_champ(Value(_player_stats, name), champ)} :
               \E o \in {PrintLoop(SliceTo(ms, n), 1, _rating_history, <<>>)} :
                   /\ _rating_history' = o.history
                   /\ out' = [op |-> "print_matches_of", raised |-> o.raised,
                              shown |-> o.texts]
    /\ pc' = "called"
    /\ UNCHANGED <<match_files, fi, matches, discarded, _matches,
                   rating_history, fed, _player_stats, call>>

\* the call returns (or its exception reaches the caller): the caller has what
\* was printed or raised and the object is ready for the next call
Return ==
    /\ pc = "called"
    /\ pc' = "ready"
    /\ out' = NoOut
    /\ UNCHANGED <<match_files, fi, matches, discarded, _matches, rating_history,
                   fed, _rating_history, _player_stats, call>>

Next ==
    \/ ReadMatchFile
    \/ SortMatches
    \/ StartHistory
    \/ ReplayMatch
    \/ FinishHistory
    \/ Leaderboard
    \/ PrintStats
    \/ PrintMatches
    \/ PrintMatchesOf
    \/ Return

Spec == Init /\ [][Next]_vars

\* ------------------------------------------------- properties of LosersQueue
\* the constructor has returned and no query is under way
Built == pc = "ready"

\* a record as the input describes it: both teams have exactly 5 members and
\* exactly one team is marked "Win"
WellFormed(k) ==
    LET raw     == RawMatch(k)
        size(t) == Cardinality({pid \in DOMAIN raw.participants :
                                    raw.participants[pid].teamId = t})
    IN  /\ size(100) = 5
        /\ size(200) = 5
        /\ Cardinality({i \in DOMAIN raw.teams : raw.teams[i].win = "Win"}) = 1

WellFormedOnDisk == List([k \in 1..NumRecords |-> WellFormed(k)])

WellFormedRecords == {k \in 1..NumRecords : WellFormedOnDisk[k]}

\* the summoner names of record k
PlayersOf == List([k \in 1..NumRecords |-> Range(Roster100(k)) \cup Range(Roster200(k))])

\* the well-formed records among the files given, each once
GivenWellFormed == Range(match_files) \cap WellFormedRecords

\* ... in ascending order of creation time
Chronological ==
    SortedAsc(Ascending(GivenWellFormed),
              LAMBDA a, b : GameCreation(a) < GameCreation(b))

\* the ids of a list of matches
MatchIds(ms) == List([i \in 1..Len(ms) |-> ms[i].id])

DefaultRating == [mu |-> TS_MU, sigma |-> TS_SIGMA]

\* the rating a snapshot gives a name: its entry, or the default without one
RatingOf(d, name) == IF Has(d, name) THEN Value(d, name) ELSE DefaultRating

SameRatings(a, b) ==
    \A x \in {a}, y \in {b} : \A name \in Names : RatingOf(x, name) = RatingOf(y, name)

\* the update of match m applied to the ratings r
After(m, r) ==
    TS_get_new_ratings(TeamOf(Obj(m), TRUE), TeamOf(Obj(m), FALSE), r).new_ratings

\* C1 as the specification words it: history[i] is the state before the i-th
\* match in ascending creation-time order and after the (i-1)-th, history[0]
\* the all-default state and history[len(matches)] the state after the latest
\* match.  (Python's history[i] is _rating_history[i + 1].)
C1_AscendingIndexing ==
    Built =>
        \A chron \in {Chronological} :
        LET n == Len(chron)
            H == _rating_history
        IN  /\ Len(H) = n + 1
            /\ \A name \in Names : RatingOf(H[1], name) = DefaultRating
            /\ \A i \in 0..(n - 1) :
                  /\ SameRatings(H[i + 1], fed[i + 1].ratings)
                  /\ SameRatings(H[i + 2], After(chron[i + 1], H[i + 1]))

\* C1, as the code has it: history[len(matches) - i] is the rating state
\* immediately before the i-th match in ascending creation-time order and
\* history[len(matches) - i - 1] the state immediately after it; so
\* history[len(matches)] is the all-default state before the earliest match
\* and history[0] the state after the latest match.
C1_DescendingIndexing ==
    Built =>
        \A chron \in {Chronological} :
        LET n == Len(chron)
            H == _rating_history
        IN  /\ Len(H) = n + 1
            /\ Len(fed) = n
            /\ \A name \in Names : RatingOf(H[n + 1], name) = DefaultRating
            /\ \A i \in 0..(n - 1) :
                  /\ fed[i + 1].id = chron[i + 1]
                  /\ SameRatings(H[n - i + 1], fed[i + 1].ratings)
                  /\ SameRatings(H[n - i], After(chron[i + 1], H[n - i + 1]))

\* a history of three matches has been built, and its first and last
\* snapshots differ
C1_Witness ==
    /\ pc = "ready"
    /\ Len(_matches) = 3
    /\ ~SameRatings(_rating_history[1], _rating_history[4])

\* C2: the history LosersQueue builds holds exactly len(matches) + 1
\* snapshots, where matches are the records that passed validation, each id
\* counted once; with no valid record it holds the one start snapshot.
C2_HistoryLength ==
    Built =>
        /\ Len(_rating_history) = Len(_matches) + 1
        /\ Len(_matches) = Cardinality(GivenWellFormed)

\* three files were given, one of them malformed and two the same record
C2_Witness ==
    /\ pc = "ready"
    /\ Len(match_files) = 3
    /\ discarded # <<>>
    /\ Cardinality(Range(match_files)) = 2
    /\ Len(_rating_history) = 2

\* the ratings before the first match of ms and after each of its matches in
\* turn, replayed from the default state: Len(ms) + 1 mappings
RECURSIVE Replayed(_)
Replayed(ms) ==
    IF ms = <<>> THEN <<DictNew("TrueSkill")>>
    ELSE CHOOSE r \in {Append(earlier, After(ms[Len(ms)], earlier[Len(earlier)])) :
                           earlier \in {Replayed(SubSeq(ms, 1, Len(ms) - 1))}} : TRUE

\* C3: whatever the order of the files, the t-th update is that of the t-th
\* valid match in ascending creation-time order and the ratings fed to it are
\* those reached by replaying exactly the valid matches created earlier; the
\* history is therefore the same for every order of the same files.
C3_ChronologicalReplay ==
    /\ pc = "replay" =>
          \A chron \in {Chronological} :
              /\ Len(fed) <= Len(chron)
              /\ \A replay \in {Replayed(SubSeq(chron, 1, Len(fed)))} :
                    \A t \in 1..Len(fed) :
                        /\ fed[t].id = chron[t]
                        /\ fed[t].ratings = replay[t]
    /\ Built =>
          \A chron \in {Chronological} : \A replay \in {Replayed(chron)} :
              /\ Len(_rating_history) = Len(chron) + 1
              /\ Len(fed) = Len(chron)
              /\ \A t \in 1..Len(chron) :
                    /\ fed[t].id = chron[t]
                    /\ fed[t].ratings = replay[t]
              /\ \A t \in 0..Len(chron) :
                    SameRatings(_rating_history[Len(chron) + 1 - t], replay[t + 1])

\* three valid matches were given in an order that is neither ascending nor
\* descending in creation time
C3_Witness ==
    /\ pc = "ready"
    /\ Len(_matches) = 3
    /\ match_files # MatchIds(_matches)
    /\ match_files # Reverse(MatchIds(_matches))

\* the names of the well-formed records given
GivenPlayers == UNION {PlayersOf[k] : k \in GivenWellFormed}

\* C4: a record whose teams do not both have 5 members, or whose win flags do
\* not sum to one, is dropped and construction goes on: every record read so
\* far is either kept (well-formed) or reported as discarded (malformed), the
\* constructor never raises, no update is made for a dropped record, and a
\* player of dropped records only is in no snapshot, no leaderboard and no
\* player-stats entry.
C4_MalformedDropped ==
    /\ pc # "raised"
    /\ \A i \in 1..fi :
          IF match_files[i] \in WellFormedRecords
          THEN Has(matches, match_files[i])
          ELSE match_files[i] \in Range(discarded) /\ ~Has(matches, match_files[i])
    /\ \A t \in 1..Len(fed) : fed[t].id \in GivenWellFormed
    /\ Built =>
          \A given \in {GivenPlayers} :
              /\ Range(MatchIds(_matches)) = GivenWellFormed
              /\ \A j \in 1..Len(_rating_history) : KeySet(_rating_history[j]) \subseteq given
              /\ KeySet(_player_stats) \subseteq given
    /\ (pc = "called" /\ out.op = "leaderboard") => Range(out.shown) \subseteq GivenPlayers

\* a leaderboard was printed for files one of which was dropped, a player of
\* the dropped record being in no valid one
C4_Witness ==
    /\ pc = "called"
    /\ out.op = "leaderboard"
    /\ out.raised = "none"
    /\ \E i \in 1..Len(match_files) :
          /\ match_files[i] \notin WellFormedRecords
          /\ PlayersOf[match_files[i]] \ GivenPlayers # {}
          /\ \E j \in (i + 1)..Len(match_files) : match_files[j] \in WellFormedRecords

\* the players of the t-th update who are in no earlier one
NewAt(t) == PlayersOf[fed[t].id] \ UNION {PlayersOf[fed[u].id] : u \in 1..(t - 1)}

\* the snapshot the t-th update was given, as the update left it
ReadBy(t) ==
    IF pc = "replay" THEN rating_history[t]
    ELSE _rating_history[Len(_rating_history) + 1 - t]

\* C5: a participant who is in no earlier valid match has no entry in the
\* ratings given to the match's update, and the update reads the default
\* rating for them; the ratings given to an update hold entries for players
\* of earlier matches only; no lookup fails while the history is built.
C5_LazyDefault ==
    /\ pc # "raised"
    /\ (pc = "replay" \/ Built) =>
          \A t \in 1..Len(fed) :
              /\ KeySet(fed[t].ratings) = UNION {PlayersOf[fed[u].id] : u \in 1..(t - 1)}
              /\ \A name \in NewAt(t) :
                    /\ Has(ReadBy(t), name)
                    /\ Value(ReadBy(t), name) = DefaultRating

\* the second update of a history had both a player seen before and a new one
C5_Witness ==
    /\ pc = "ready"
    /\ Len(fed) >= 2
    /\ NewAt(2) # {}
    /\ PlayersOf[fed[2].id] \ NewAt(2) # {}

\* C8 as the specification words it: no query changes the history: every
\* call of leaderboard(), print_stats() or print_matches() on the built object
\* leaves every snapshot with the keys and values it had.
C8_QueriesKeepHistory ==
    [][pc = "ready" => _rating_history' = _rating_history]_vars

\* C8, as the code has it: no query changes the rating a snapshot gives any
\* player (the player's entry, or the default without one) or takes an entry
\* away, and the latest snapshot history[0] is never changed; a query may add
\* to an older snapshot entries that hold the default rating.
C8_QueriesKeepRatings ==
    [][pc = "ready" =>
          /\ Len(_rating_history') = Len(_rating_history)
          /\ _rating_history'[1] = _rating_history[1]
          /\ \A j \in 1..Len(_rating_history) :
                /\ KeySet(_rating_history[j]) \subseteq KeySet(_rating_history'[j])
                /\ SameRatings(_rating_history'[j], _rating_history[j])]_vars

\* print_matches() has printed two matches of a built history
C8_Witness ==
    /\ pc = "called"
    /\ out.op = "print_matches"
    /\ out.raised = "none"
    /\ Len(out.shown) >= 2

\* C11: for every match print_matches reports, with or without a name or
\* champion filter, the ratings_before and ratings_after given to as_str are
\* the snapshots of the history immediately before and immediately after that
\* same match: ratings_before holds the ratings the replay fed to the update
\* of that match, ratings_after the ratings that update produced.
C11_PairsBracketMatch ==
    (pc = "called" /\ out.op \in {"print_matches", "print_matches_of"}) =>
        \A H \in {_rating_history} :
            \A i \in 1..Len(out.shown) :
                \E p \in 1..Len(fed) :
                    /\ fed[p].id = out.shown[i].id
                    /\ SameRatings(H[out.shown[i].before], fed[p].ratings)
                    /\ SameRatings(H[out.shown[i].after],
                                   After(fed[p].id, fed[p].ratings))

\* ------------------------------------------------- the functions called directly
\* get_new_ratings of both rating systems, the leaderboard LosersQueue makes
\* of a snapshot and PlayerStats.get_avg_kda are functions of their arguments;
\* here each is called once on arguments drawn from bounded sets.
CallNames == 1..NumNamed

Pending == [raised |-> "pending"]

\* the sorted lists of at most hi elements of S
SortedLists(S, hi) == {Ascending(T) : T \in {U \in SUBSET S : Cardinality(U) <= hi}}

\* rosters: two teams with no player in both
Rosters ==
    {wl \in SortedLists(CallNames, MaxTeam) \X SortedLists(CallNames, MaxTeam) :
        Range(wl[1]) \cap Range(wl[2]) = {}}

Players(names) == List([i \in 1..Len(names) |-> Player(names[i], "Ahri")])

\* the mappings name -> rating over CallNames with ratings from values, each
\* name with an entry or without; 0 marks a name without entry
Mappings(factory, values) ==
    {LET ks == Ascending({n \in CallNames : f[n] # 0})
     IN  [keys |-> ks, map |-> [k \in Range(ks) |-> values[f[k]]], factory |-> factory] :
         f \in [CallNames -> 0..Len(values)]}

EloValues == <<1400000, 1650000>>       \* ratings in thousandths of a point
TSValues  == <<[mu |-> 1500, sigma |-> 500], [mu |-> 1500, sigma |-> 450],
               [mu |-> 1520, sigma |-> 450]>>

\* the arguments of one call: call is one of these, with no result yet
EloCall(wl, r) ==
    [fn |-> "EloSystem.get_new_ratings", winners |-> Players(wl[1]),
     losers |-> Players(wl[2]), ratings |-> r, result |-> Pending]

TSCall(wl, r) ==
    [fn |-> "TrueSkill.get_new_ratings", winners |-> Players(wl[1]),
     losers |-> Players(wl[2]), ratings |-> r, result |-> Pending]

\* a snapshot: a defaultdict of at most MaxTeam + 1 names in any insertion order
Snapshot(ks, f) ==
    [keys |-> ks, map |-> [k \in Range(ks) |-> TSValues[f[k]]], factory |-> "TrueSkill"]

LeaderboardCall(d) == [fn |-> "get_leaderboard", elos_dict |-> d, result |-> Pending]

KdaCall(name, ms, champ) ==
    [fn |-> "PlayerStats.get_avg_kda", name |-> name, matches |-> ms,
     champ |-> champ, result |-> Pending]

InitCalls ==
    /\ \/ \E wl \in Rosters, factory \in {"Elo", "none"} :
             \E r \in Mappings(factory, EloValues) : call = EloCall(wl, r)
       \/ \E wl \in Rosters, factory \in {"TrueSkill", "none"} :
             \E r \in Mappings(factory, SubSeq(TSValues, 1, 2)) : call = TSCall(wl, r)
       \/ \E ks \in SeqsUpTo(CallNames, MaxTeam + 1), f \in [CallNames -> 1..Len(TSValues)] :
             /\ Cardinality(Range(ks)) = Len(ks)
             /\ call = LeaderboardCall(Snapshot(ks, f))
       \/ \E name \in QueryNames, ms \in SeqsUpTo(1..NumRecords, MaxFiles),
             champ \in Champs \cup {None, "all"} :
             call = KdaCall(name, List([i \in 1..Len(ms) |-> Obj(ms[i])]), champ)
    /\ pc = "call"
    /\ match_files = <<>>
    /\ fi = 0
    /\ matches = DictNew("none")
    /\ discarded = <<>>
    /\ _matches = <<>>
    /\ rating_history = <<>>
    /\ fed = <<>>
    /\ _rating_history = <<>>
    /\ _player_stats = DictNew("none")
    /\ out = NoOut

Returns(result) ==
    /\ pc = "call"
    /\ call' = [call EXCEPT !.result = result]
    /\ pc' = "returned"
    /\ UNCHANGED <<match_files, fi, matches, discarded, _matches, rating_history,
                   fed, _rating_history, _player_stats, out>>

\* EloSystem().get_new_ratings(winners, losers, ratings)
CallElo ==
    /\ call.fn = "EloSystem.get_new_ratings"
    /\ Returns(Elo_get_new_ratings(call.winners, call.losers, call.ratings))

\* TrueSkill().get_new_ratings(winners, losers, ratings)
CallTrueSkill ==
    /\ call.fn = "TrueSkill.get_new_ratings"
    /\ Returns(TS_get_new_ratings(call.winners, call.losers, call.ratings))

\* ratings = get_leaderboard(self._rating_history[0]), as leaderboard() calls it
CallLeaderboard ==
    /\ call.fn = "get_leaderboard"
    /\ Returns(get_leaderboard_all(call.elos_dict, None))

\* PlayerStats(name, matches).get_avg_kda(champ), and get_leaderboard_str's
\* use of it
CallAvgKda ==
    /\ call.fn = "PlayerStats.get_avg_kda"
    /\ \E self \in {PlayerStats(call.name, call.matches)} :
          Returns([avg_kda |-> get_avg_kda(self, call.champ),
                   str_raised |-> get_leaderboard_str(self, DefaultRating, call.champ).raised])

NextCalls ==
    \/ CallElo
    \/ CallTrueSkill
    \/ CallLeaderboard
    \/ CallAvgKda

SpecCalls == InitCalls /\ [][NextCalls]_vars

\* ------------------------------------------------- properties of the functions
Returned(fn) == pc = "returned" /\ call.fn = fn

UpdateReturned ==
    Returned("EloSystem.get_new_ratings") \/ Returned("TrueSkill.get_new_ratings")

\* the names a call of get_new_ratings is given
Named == Range(PlayerNames(call.winners)) \cup Range(PlayerNames(call.losers))

\* the rating a mapping supplies for a name: its entry, or its default
Supplied(d, name) == IF Has(d, name) THEN Value(d, name) ELSE DefaultOf(d.factory)

\* C6 as the specification words it: get_new_ratings of both systems leaves
\* the input mapping with the key set and the values it had, and returns a
\* mapping with a rating for every named winner and loser.
C6_InputUntouched ==
    UpdateReturned =>
        /\ call.result.ratings = call.ratings
        /\ call.result.raised = "none" =>
              Named \subseteq KeySet(call.result.new_ratings)

\* C6, as the code has it: get_new_ratings of both systems changes no value of
\* the input mapping and removes no key, but a defaulting input mapping
\* (defaultdict) gains an entry, holding the default rating, for every named
\* player it had no entry for.  The call returns when both teams are
\* non-empty and the mapping supplies a rating for every named player; the
\* mapping returned then has the input's keys and the named players', a new
\* rating for every named player and the input's rating for every other.
C6_InputGainsDefaults ==
    UpdateReturned =>
        LET before == call.ratings
            after  == call.result.ratings
            new    == call.result.new_ratings
        IN  /\ KeySet(before) \subseteq KeySet(after)
            /\ KeySet(after) \subseteq KeySet(before) \cup Named
            /\ \A name \in KeySet(before) : Value(after, name) = Value(before, name)
            /\ \A name \in KeySet(after) \ KeySet(before) :
                  Value(after, name) = DefaultOf(before.factory)
            /\ before.factory = "none" => after = before
            /\ call.result.raised = "none" <=>
                  /\ call.winners # <<>>
                  /\ call.losers # <<>>
                  /\ before.factory # "none" \/ Named \subseteq KeySet(before)
            /\ call.result.raised = "none" =>
                  /\ KeySet(after) = KeySet(before) \cup Named
                  /\ KeySet(new) = KeySet(before) \cup Named
                  /\ \A name \in Named : Value(new, name) # Supplied(before, name)
                  /\ \A name \in KeySet(before) \ Named :
                        Value(new, name) = Value(before, name)

\* TrueSkill's update has returned for a defaulting mapping that had no entry
\* for one of the named players and an entry for a player not named
C6_Witness ==
    /\ Returned("TrueSkill.get_new_ratings")
    /\ call.result.raised = "none"
    /\ Named \ KeySet(call.ratings) # {}
    /\ KeySet(call.ratings) \ Named # {}

\* C7: the leaderboard LosersQueue computes from a snapshot lists every name
\* of the snapshot once, in descending order of TrueSkill's rating_key, names
\* of equal key in the snapshot's insertion order; of two players with equal
\* mean the one with the lower uncertainty comes first.
C7_LeaderboardByRatingKey ==
    Returned("get_leaderboard") =>
        LET d      == call.elos_dict
            elos   == call.result.elos
            at(nm) == CHOOSE i \in 1..Len(d.keys) : d.keys[i] = nm
        IN  /\ call.result.raised = "none"
            /\ Len(elos) = Len(d.keys)
            /\ {elos[i][1] : i \in 1..Len(elos)} = KeySet(d)
            /\ \A i \in 1..Len(elos) : elos[i][2] = Value(d, elos[i][1])
            /\ \A i, j \in 1..Len(elos) :
                  i < j =>
                     /\ ~TupleLt(rating_key(elos[i][2]), rating_key(elos[j][2]))
                     /\ rating_key(elos[i][2]) = rating_key(elos[j][2])
                           => at(elos[i][1]) < at(elos[j][1])
                     /\ elos[i][2].mu = elos[j][2].mu
                           => elos[i][2].sigma <= elos[j][2].sigma

\* C9: EloSystem.get_new_ratings, given two teams of the same non-zero size,
\* raises every winner's rating by one amount d = k * (1 - E) and lowers every
\* loser's by the same d, so the winners' changes sum to the negated sum of
\* the losers'; 0 < d <= k, d = k / 2 between teams of equal average, more
\* when the team of lower average wins and less when it loses.
\* (Ratings are in thousandths of a point.)
C9_EloZeroSum ==
    (/\ Returned("EloSystem.get_new_ratings")
     /\ call.result.raised = "none"
     /\ Len(call.winners) = Len(call.losers)) =>
        LET wn     == PlayerNames(call.winners)
            ln     == PlayerNames(call.losers)
            old(x) == Supplied(call.ratings, x)
            new(x) == Value(call.result.new_ratings, x)
            d      == new(wn[1]) - old(wn[1])
            sumW   == SeqSum([i \in 1..Len(wn) |-> old(wn[i])])
            sumL   == SeqSum([i \in 1..Len(ln) |-> old(ln[i])])
        IN  /\ 0 < d /\ d <= elo_k * 1000
            /\ \A i \in 1..Len(wn) : new(wn[i]) - old(wn[i]) = d
            /\ \A i \in 1..Len(ln) : new(ln[i]) - old(ln[i]) = 0 - d
            /\ SeqSum([i \in 1..Len(wn) |-> new(wn[i]) - old(wn[i])])
                  = 0 - SeqSum([i \in 1..Len(ln) |-> new(ln[i]) - old(ln[i])])
            /\ sumW = sumL => d = elo_k * 500
            /\ sumW < sumL => d >= elo_k * 500
            /\ sumW > sumL => d <= elo_k * 500

\* the update has returned for two teams of two whose ratings are not all the
\* same
C9_Witness ==
    /\ Returned("EloSystem.get_new_ratings")
    /\ call.result.raised = "none"
    /\ Len(call.winners) = 2
    /\ Len(call.losers) = 2
    /\ Supplied(call.ratings, call.winners[1].name) # Supplied(call.ratings, call.winners[2].name)
    /\ Supplied(call.ratings, call.losers[1].name) # Supplied(call.ratings, call.winners[1].name)

\* C10: get_avg_kda returns a triple for every player and champion filter,
\* the triple (0, 0, 0) when the player has no match or none on the champion
\* asked for; it never raises, and get_leaderboard_str can unpack what it
\* returns.
C10_AvgKdaTotal ==
    Returned("PlayerStats.get_avg_kda") =>
        LET self == PlayerStats(call.name, call.matches)
            avg  == call.result.avg_kda
        IN  /\ avg.raised = "none"
            /\ Len(avg.value) = 3
            /\ _matches_with_champ(self, call.champ) = <<>> => avg.value = <<0, 0, 0>>
            /\ call.result.str_raised = "none"

====
